---- MODULE Spec2Model ----
(***************************************************************************)
(* The voice session engine of ani-mate (App component): the streaming     *)
(* (Gemini Live) session with its playback scheduler, transcript buffer    *)
(* and tool dispatch, and the start/stop control that drives it.           *)
(*                                                                         *)
(* One action is one run-to-completion handler of the single-threaded      *)
(* event loop.  An await splits a handler in two actions: the part before  *)
(* the await and the continuation that runs when the awaited promise       *)
(* settles.                                                                 *)
(***************************************************************************)
EXTENDS Integers, Sequences, FiniteSets, TLC

\* ---- bounds of the model ------------------------------------------------
MaxSessions == 2      \* cloud startVoice invocations explored
MaxMsgs == 3          \* inbound server messages delivered, all sessions
MaxTime == 1          \* ticks of the audio clock
MaxDur == 1           \* longest decoded buffer, in ticks
MaxUnits == 3         \* audio chunks being decoded or played at once
MaxRequests == 2      \* inference requests issued by sendText and by the recognizer
MaxRecs == 2          \* speech recognition passes started
MaxFrames == 2        \* capture frames handed to onaudioprocess, all sessions

Sessions == 1..MaxSessions
NoSession == 0
Recs == 1..MaxRecs
NoRec == 0

\* ---- values carried by inbound messages ----------------------------------
Fragments == {"a", "b"}
ToolNames == {"searchGoogle", "openYoutube", "playMusic", "setAlarm"}
Queries == {<< "lofi" >>}         \* args.query, as its words
NoAudio == -1
NoText == "none"

FunctionCalls == [ name : ToolNames, query : Queries ]
\* msg.toolCall.functionCalls: no toolCall, one call, or two calls.
FunctionCallLists ==
    {<< >>} \cup { << c >> : c \in FunctionCalls }
            \cup { << c, d >> : c \in { x \in FunctionCalls : x.name = "openYoutube" },
                               d \in { x \in FunctionCalls : x.name = "playMusic" } }

\* A LiveServerMessage as onmessage reads it: inlineData (here the duration
\* its audio decodes to), outputTranscription.text, turnComplete, and
\* toolCall.functionCalls (empty when the message has no toolCall).  A message
\* carries audio, or one of the other three parts, or audio and one of them.
ServerMessages ==
    { m \in [ audio : {NoAudio} \cup (0..MaxDur),
              text : {NoText} \cup Fragments,
              turnComplete : BOOLEAN,
              functionCalls : FunctionCallLists ] :
        LET parts == (IF m.text # NoText THEN 1 ELSE 0)
                     + (IF m.turnComplete THEN 1 ELSE 0)
                     + (IF m.functionCalls # << >> THEN 1 ELSE 0)
        IN  /\ parts <= 1
            /\ (m.audio # NoAudio \/ parts = 1) }

AudioMessages ==
    { m \in ServerMessages :
        m.text = NoText /\ ~m.turnComplete /\ m.functionCalls = << >> }
\* Where the audio is not what is looked at, it has one length.
TranscriptMessages ==
    { m \in ServerMessages :
        (m.text # NoText \/ m.turnComplete) /\ m.audio \in {NoAudio, MaxDur} }
ToolMessages ==
    { m \in ServerMessages : m.functionCalls # << >> /\ m.audio \in {NoAudio, MaxDur} }
PlainAudioMessages == { m \in AudioMessages : m.audio = MaxDur }

VARIABLES
    isLocalMode,      \* useState isLocalMode
    voiceState,       \* useState VoiceState
    messages,         \* useState ChatMessage[] (role, content)
    audioContexts,    \* audioContexts.current
    sessionRef,       \* sessionRef.current
    stream,           \* per startVoice call: the MediaStream of getUserMedia
    conn,             \* per startVoice call: the live connection
    sessionPromise,   \* per startVoice call: the promise of ai.live.connect
    outputAC,         \* per startVoice call: creation time of its outputAC
    now,              \* time since the first outputAC was created
    decoding,         \* onmessage invocations suspended at await decodeAudioData
    units,            \* buffer sources started and not yet ended, in scheduling order
    delivered,        \* number of messages handed to onmessage so far
    opened,           \* window.open calls so far
    toolResponses,    \* sendToolResponse calls so far
    pendingThen,      \* per startVoice call: callbacks queued on sessionPromise
    lastWrite,        \* history: the last write of voiceState.transcription (its
                      \* kind, the arrival number of its message, the kind before it)
    stopped,          \* history: the startVoice calls issued before the latest stopVoice
    inputText,        \* useState inputText
    requests,         \* inference requests in flight (fetch / generateContent awaited)
    issued,           \* number of inference requests issued so far
    utterances,       \* window.speechSynthesis: utterances queued or being spoken
    rec,              \* per batch startVoice call: its speech recognition pass
    speechRecognition, \* speechRecognition.current
    frames,           \* number of capture frames handed to onaudioprocess so far
    sentAudio         \* sendRealtimeInput calls so far

\* The text box, the inference requests and the batch (local) voice pipeline.
localVars == << inputText, requests, issued, utterances, rec, speechRecognition >>

\* The capture side of the streaming session.
captureVars == << frames, sentAudio >>

vars == << isLocalMode, voiceState, messages, audioContexts, sessionRef, stream,
           conn, sessionPromise, outputAC, now, decoding, units, delivered,
           opened, toolResponses, pendingThen, lastWrite, stopped,
           localVars, captureVars >>

Max(a, b) == IF a >= b THEN a ELSE b

\* AudioContext.currentTime of the outputAC created by startVoice call s.
CurrentTime(s) == now - outputAC[s]

Init ==
    /\ isLocalMode = FALSE
    /\ voiceState = [ isActive |-> FALSE, isThinking |-> FALSE,
                      isSpeaking |-> FALSE, transcription |-> << >> ]
    /\ messages = << [ role |-> "assistant", content |-> << "Namaste" >> ] >>
    /\ audioContexts = [ input |-> NoSession, output |-> NoSession, stream |-> NoSession,
                         nextStartTime |-> 0, sources |-> {} ]
    /\ sessionRef = NoSession
    /\ stream = [ s \in Sessions |-> "none" ]
    /\ conn = [ s \in Sessions |-> "none" ]
    /\ sessionPromise = [ s \in Sessions |-> "none" ]
    /\ outputAC = [ s \in Sessions |-> 0 ]
    /\ now = 0
    /\ decoding = {}
    /\ units = << >>
    /\ delivered = 0
    /\ opened = << >>
    /\ toolResponses = << >>
    /\ pendingThen = [ s \in Sessions |-> << >> ]
    /\ lastWrite = [ op |-> "none", arrival |-> 0, prev |-> "none" ]
    /\ stopped = {}
    /\ inputText = ""
    /\ requests = {}
    /\ issued = 0
    /\ utterances = << >>
    /\ rec = [ r \in Recs |-> "none" ]
    /\ speechRecognition = NoRec
    /\ frames = 0
    /\ sentAudio = << >>

\* ---- ToolDispatcher ------------------------------------------------------

\* encodeURIComponent(query): the query, percent-encoded.
EncodeURIComponent(q) == << "uri", q >>

\* The url handleSystemAction builds; << >> is the empty string.
UrlWithoutCase(action) ==
    CASE action.type = "search" -> << "google.com/search", EncodeURIComponent(action.query) >>
      [] action.type = "youtube" -> << >>
      [] action.type = "music" -> << "music.youtube.com/search", EncodeURIComponent(action.query) >>
      [] OTHER -> << >>

Url(action) ==
    CASE action.type = "search" -> << "google.com/search", EncodeURIComponent(action.query) >>
      [] action.type = "youtube" -> << "youtube.com/results", EncodeURIComponent(action.query) >>
      [] action.type = "music" -> << "music.youtube.com/search", EncodeURIComponent(action.query) >>
      [] OTHER -> << >>

\* handleSystemAction: the window.open calls it makes and the message it adds.
HandleSystemAction(action) ==
    [ open |-> IF Url(action) # << >> THEN << Url(action) >> ELSE << >>,
      message |-> [ role |-> "system",
                    content |-> << "Command triggered", action.type, action.query >> ] ]

\* The action type onmessage and handleSendText derive from a function name.
ActionType(name) ==
    IF name = "playMusic" THEN "music"
    ELSE IF name = "openYoutube" THEN "youtube"
    ELSE "search"

ActionOf(fc) == [ type |-> ActionType(fc.name), query |-> fc.query ]

RECURSIVE Flatten(_)
Flatten(ss) == IF ss = << >> THEN << >> ELSE Head(ss) \o Flatten(Tail(ss))

\* The loop over msg.toolCall.functionCalls of message number n of session s.
OpenedBy(calls) ==
    Flatten([ i \in 1..Len(calls) |-> HandleSystemAction(ActionOf(calls[i])).open ])
CommandMessages(calls) ==
    [ i \in 1..Len(calls) |-> HandleSystemAction(ActionOf(calls[i])).message ]
ResponsesFor(s, n, calls) ==
    [ i \in 1..Len(calls) |->
        [ kind |-> "toolResponse", session |-> s, id |-> << n, i >>,
          name |-> calls[i].name, result |-> "Success" ] ]

\* ---- onmessage after the audio part (lines 246-263) ----------------------

AppendFragment(vs, m) ==
    IF m.text # NoText
    THEN [ vs EXCEPT !.transcription = Append(@, m.text) ]
    ELSE vs

TurnCompleteKeepsBuffer(vs, m) == vs

TurnComplete(vs, m) ==
    IF m.turnComplete THEN [ vs EXCEPT !.transcription = << >> ] ELSE vs

FinalizedDropsBuffer(vs, m) == << >>

Finalized(vs, m) ==
    IF m.turnComplete /\ vs.transcription # << >>
    THEN << [ role |-> "assistant", content |-> vs.transcription ] >>
    ELSE << >>

RestOfMessage(s, n, m, vs) ==
    LET vs1 == AppendFragment(vs, m)
        calls == m.functionCalls
    IN  /\ voiceState' = TurnComplete(vs1, m)
        /\ messages' = messages \o Finalized(vs1, m) \o CommandMessages(calls)
        /\ opened' = opened \o OpenedBy(calls)
        /\ IF sessionPromise[s] = "resolved"
           THEN /\ toolResponses' = toolResponses \o ResponsesFor(s, n, calls)
                /\ UNCHANGED pendingThen
           ELSE /\ pendingThen' = [ pendingThen EXCEPT ![s] =
                                      IF sessionPromise[s] = "pending"
                                      THEN @ \o ResponsesFor(s, n, calls) ELSE @ ]
                /\ UNCHANGED toolResponses
        /\ lastWrite' = IF m.turnComplete
                        THEN [ op |-> "turnComplete", arrival |-> n, prev |-> lastWrite.op ]
                        ELSE IF m.text # NoText
                        THEN [ op |-> "fragment", arrival |-> n, prev |-> lastWrite.op ]
                        ELSE lastWrite

\* ---- start / stop ---------------------------------------------------------

Started == { s \in Sessions : stream[s] # "none" }

\* The startVoice calls whose inputAC and outputAC (lines 210-211) are open:
\* every call creates the two contexts and nothing ever closes one.
OpenContexts == Started

\* The session button while it shows the microphone, cloud mode: startVoice
\* up to await getUserMedia (lines 208-212), explored for the first k calls.
StartVoiceWithin(k) ==
    /\ ~isLocalMode
    /\ ~voiceState.isActive
    /\ Cardinality(Started) < k
    /\ LET s == Cardinality(Started) + 1
       IN  /\ stream' = [ stream EXCEPT ![s] = "requested" ]
           /\ outputAC' = [ outputAC EXCEPT ![s] = now ]
    /\ UNCHANGED << localVars, captureVars, isLocalMode, voiceState, messages, audioContexts, sessionRef, conn,
                    sessionPromise, now, decoding, units, delivered, opened,
                    toolResponses, pendingThen, lastWrite, stopped >>

\* getUserMedia resolves: lines 214-216, up to await sessionPromise.
GetUserMedia(s) ==
    /\ stream[s] = "requested"
    /\ stream' = [ stream EXCEPT ![s] = "live" ]
    /\ audioContexts' = [ input |-> s, output |-> s, stream |-> s,
                          nextStartTime |-> 0, sources |-> {} ]
    /\ conn' = [ conn EXCEPT ![s] = "connecting" ]
    /\ sessionPromise' = [ sessionPromise EXCEPT ![s] = "pending" ]
    /\ UNCHANGED << localVars, captureVars, isLocalMode, voiceState, messages, sessionRef, outputAC, now,
                    decoding, units, delivered, opened, toolResponses, pendingThen,
                    lastWrite, stopped >>

\* getUserMedia rejects: the catch of lines 275-278 (console.error, alert).
GetUserMediaRejected(s) ==
    /\ stream[s] = "requested"
    /\ stream' = [ stream EXCEPT ![s] = "denied" ]
    /\ UNCHANGED << localVars, captureVars, isLocalMode, voiceState, messages, audioContexts, sessionRef, conn,
                    sessionPromise, outputAC, now, decoding, units, delivered, opened,
                    toolResponses, pendingThen, lastWrite, stopped >>

\* ai.live.connect rejects before the connection opens: the same catch.
ConnectRejected(s) ==
    /\ conn[s] = "connecting"
    /\ conn' = [ conn EXCEPT ![s] = "failed" ]
    /\ sessionPromise' = [ sessionPromise EXCEPT ![s] = "rejected" ]
    /\ pendingThen' = [ pendingThen EXCEPT ![s] = << >> ]
    /\ UNCHANGED << localVars, captureVars, isLocalMode, voiceState, messages, audioContexts, sessionRef, stream,
                    outputAC, now, decoding, units, delivered, opened, toolResponses,
                    lastWrite, stopped >>

\* callbacks.onopen (lines 219-228).
OnOpen(s) ==
    /\ conn[s] = "connecting"
    /\ conn' = [ conn EXCEPT ![s] = "open" ]
    /\ voiceState' = [ voiceState EXCEPT !.isActive = TRUE ]
    /\ UNCHANGED << localVars, captureVars, isLocalMode, messages, audioContexts, sessionRef, stream,
                    sessionPromise, outputAC, now, decoding, units, delivered, opened,
                    toolResponses, pendingThen, lastWrite, stopped >>

IsToolResponse(c) == c.kind = "toolResponse"
IsRealtimeInput(c) == c.kind = "realtimeInput"

\* sessionPromise resolves once the connection is established: line 274 and
\* the callbacks queued with sessionPromise.then, in registration order.
SessionResolved(s) ==
    /\ conn[s] \in {"open", "closing", "closed"}
    /\ sessionPromise[s] = "pending"
    /\ sessionPromise' = [ sessionPromise EXCEPT ![s] = "resolved" ]
    /\ sessionRef' = s
    /\ toolResponses' = toolResponses \o SelectSeq(pendingThen[s], IsToolResponse)
    /\ sentAudio' = sentAudio \o SelectSeq(pendingThen[s], IsRealtimeInput)
    /\ pendingThen' = [ pendingThen EXCEPT ![s] = << >> ]
    /\ UNCHANGED << localVars, frames, isLocalMode, voiceState, messages, audioContexts, stream, conn,
                    outputAC, now, decoding, units, delivered, opened, lastWrite,
                    stopped >>

\* callbacks.onclose (line 265): the service closed the connection, or the
\* close() of stopVoice completed.
OnClose(s) ==
    /\ conn[s] \in {"open", "closing"}
    /\ conn' = [ conn EXCEPT ![s] = "closed" ]
    /\ voiceState' = [ voiceState EXCEPT !.isActive = FALSE ]
    /\ UNCHANGED << localVars, captureVars, isLocalMode, messages, audioContexts, sessionRef, stream,
                    sessionPromise, outputAC, now, decoding, units, delivered, opened,
                    toolResponses, pendingThen, lastWrite, stopped >>

\* The session button while it shows the stop square: stopVoice (lines 281-289).
StopVoice ==
    /\ voiceState.isActive
    /\ IF isLocalMode
       THEN UNCHANGED << stream, conn >>
       ELSE /\ stream' = [ s \in Sessions |->
                             IF s = audioContexts.stream /\ stream[s] = "live"
                             THEN "stopped" ELSE stream[s] ]
            /\ conn' = [ s \in Sessions |->
                           IF s = sessionRef /\ conn[s] = "open"
                           THEN "closing" ELSE conn[s] ]
    /\ voiceState' = [ voiceState EXCEPT !.isActive = FALSE, !.isSpeaking = FALSE ]
    /\ stopped' = Started
    /\ UNCHANGED << localVars, captureVars, isLocalMode, messages, audioContexts, sessionRef, sessionPromise,
                    outputAC, now, decoding, units, delivered, opened, toolResponses,
                    pendingThen, lastWrite >>

StartVoice == StartVoiceWithin(MaxSessions)

\* The only startVoice call of a run.
StartVoiceOnce == StartVoiceWithin(1)

\* ---- inbound messages and playback ----------------------------------------

\* callbacks.onmessage: with audio, lines 230-233 up to await decodeAudioData;
\* without, lines 246-263.
OnMessage(s, m) ==
    /\ conn[s] = "open"
    /\ delivered < MaxMsgs
    /\ delivered' = delivered + 1
    /\ IF m.audio # NoAudio
       THEN /\ Cardinality(decoding) + Len(units) < MaxUnits
            /\ voiceState' = [ voiceState EXCEPT !.isSpeaking = TRUE ]
            /\ decoding' = decoding \cup
                             { [ session |-> s, arrival |-> delivered + 1, msg |-> m ] }
            /\ UNCHANGED << messages, opened, toolResponses, pendingThen, lastWrite >>
       ELSE /\ RestOfMessage(s, delivered + 1, m, voiceState)
            /\ UNCHANGED decoding
    /\ UNCHANGED << localVars, captureVars, isLocalMode, audioContexts, sessionRef, stream, conn, sessionPromise,
                    outputAC, now, units, stopped >>

\* decodeAudioData(decode(audioData), outputAC, 24000, 1) of
\* services/audio-utils: the AudioFrame of the chunk's samples; a chunk that
\* decodes to no samples gives a frame of length zero.
DecodeAudioData(m) == [ duration |-> m.audio ]

\* max(nextStartTime, currentTime) of line 237.
StartAtCursor(cursor, currentTime) == cursor

StartTime(cursor, currentTime) == Max(cursor, currentTime)

\* decodeAudioData resolves: lines 234-244 and then 246-263.  The unit is
\* known by the arrival number of its message.
DecodeDone(d) ==
    /\ d \in decoding
    /\ decoding' = decoding \ {d}
    /\ LET start == StartTime(audioContexts.nextStartTime, CurrentTime(d.session))
           buffer == DecodeAudioData(d.msg)
           unit == [ session |-> d.session, arrival |-> d.arrival, start |-> start,
                     duration |-> buffer.duration ]
       IN  /\ units' = Append(units, unit)
           /\ audioContexts' = [ audioContexts EXCEPT
                                   !.nextStartTime = start + buffer.duration,
                                   !.sources = @ \cup { d.arrival } ]
    /\ RestOfMessage(d.session, d.arrival, d.msg, voiceState)
    /\ UNCHANGED << localVars, captureVars, isLocalMode, sessionRef, stream, conn, sessionPromise, outputAC, now,
                    delivered, stopped >>

\* source.onended (lines 241-244) of unit number u of those still playing or
\* waiting to play: it fires once the unit has played to its end.
OnEnded(u) ==
    /\ u \in 1..Len(units)
    /\ CurrentTime(units[u].session) >= units[u].start + units[u].duration
    /\ units' = [ i \in 1..(Len(units) - 1) |-> IF i < u THEN units[i] ELSE units[i + 1] ]
    /\ LET remaining == audioContexts.sources \ { units[u].arrival }
       IN  /\ audioContexts' = [ audioContexts EXCEPT !.sources = remaining ]
           /\ IF remaining = {}
              THEN /\ voiceState' = [ voiceState EXCEPT !.isSpeaking = FALSE ]
              ELSE /\ UNCHANGED voiceState
    /\ UNCHANGED << localVars, captureVars, isLocalMode, messages, sessionRef, stream, conn, sessionPromise,
                    outputAC, now, decoding, delivered, opened, toolResponses,
                    pendingThen, lastWrite, stopped >>

DecodeResolved == \E d \in decoding : DecodeDone(d)

PlaybackEnded == \E u \in 1..Len(units) : OnEnded(u)

\* Time passes on every audio clock.  No clock is read before the first
\* outputAC exists, so time is counted from its creation.
Tick ==
    /\ Started # {}
    /\ now < MaxTime
    /\ now' = now + 1
    /\ UNCHANGED << localVars, captureVars, isLocalMode, voiceState, messages, audioContexts, sessionRef, stream,
                    conn, sessionPromise, outputAC, decoding, units, delivered, opened,
                    toolResponses, pendingThen, lastWrite, stopped >>

\* ---- the mode switch, the text box and the inference requests -------------

\* The streaming session and its playback, as the handlers below leave it.
sessionVars == << audioContexts, sessionRef, stream, conn, sessionPromise, outputAC,
                  now, decoding, units, delivered, toolResponses, pendingThen, stopped >>

\* The CLOUD / LOCAL switch (line 353).
ToggleMode ==
    /\ isLocalMode' = ~isLocalMode
    /\ UNCHANGED << voiceState, messages, opened, lastWrite, sessionVars, localVars,
                    captureVars >>

Texts == {"", " ", "hi"}

\* String.prototype.trim on the texts above.
Trim(t) == IF t = " " THEN "" ELSE t

\* onChange of the text box (line 436).
SetInputText(t) ==
    /\ inputText' = t
    /\ UNCHANGED << isLocalMode, voiceState, messages, opened, lastWrite, sessionVars,
                    requests, issued, utterances, rec, speechRecognition, captureVars >>

\* An inference request: fetch to Ollama (line 153) or generateContent (line 304).
Request(api, prompt, origin) ==
    [ id |-> issued + 1, api |-> api, prompt |-> prompt, origin |-> origin ]

\* handleSendText up to its await (lines 291-299, 301-304): Enter in the text
\* box, or the send button.
HandleSendText ==
    IF Trim(inputText) = ""
    THEN UNCHANGED vars
    ELSE /\ issued < MaxRequests
         /\ inputText' = ""
         /\ messages' = Append(messages, [ role |-> "user", content |-> << inputText >> ])
         /\ voiceState' = [ voiceState EXCEPT !.isThinking = TRUE ]
         /\ issued' = issued + 1
         /\ requests' = requests \cup
               { Request(IF isLocalMode THEN "ollama" ELSE "gemini", << inputText >>, "text") }
         /\ UNCHANGED << isLocalMode, opened, lastWrite, sessionVars, utterances, rec,
                         speechRecognition, captureVars >>

\* setVoiceState(prev => ({...prev, isThinking: false})) of lines 300 and 324.
StillThinking(vs) == vs

ThinkingDone(vs) == [ vs EXCEPT !.isThinking = FALSE ]

\* What handleSendText does to voiceState once the request of q has settled;
\* a request of the recognizer (line 197) is not awaited by anyone.
Settled(q, vs) == IF q.origin = "text" THEN ThinkingDone(vs) ELSE vs

\* data.message.content of an Ollama reply, as its words.
Contents == { << "ok" >>, << "search" >>, << "search", "lofi" >> }
NoMatch == << "no match" >>

\* content.toLowerCase().includes('search') and content.match(/search (.*)/i):
\* the text after the first "search " (lines 168-169).
IncludesSearch(content) == \E i \in 1..Len(content) : content[i] = "search"
SearchMatch(content) ==
    IF \E i \in 1..(Len(content) - 1) : content[i] = "search"
    THEN LET i == CHOOSE i \in 1..(Len(content) - 1) :
                    /\ content[i] = "search"
                    /\ \A j \in 1..(i - 1) : content[j] # "search"
         IN  SubSeq(content, i + 1, Len(content))
    ELSE NoMatch

\* The keyword detection of queryOllama (lines 168-171).
KeywordActions(content) ==
    IF IncludesSearch(content) /\ SearchMatch(content) # NoMatch
    THEN << [ type |-> "search", query |-> SearchMatch(content) ] >>
    ELSE << >>

\* speakLocal (lines 138-148): the utterance handed to speechSynthesis.speak.
SpeakLocal(text) == << [ text |-> text, state |-> "queued" ] >>

\* queryOllama after its awaits, no error (lines 162-171).
OllamaResponse(q, content) ==
    /\ q \in requests /\ q.api = "ollama"
    /\ requests' = requests \ {q}
    /\ LET actions == KeywordActions(content)
       IN  /\ messages' = messages
                \o << [ role |-> "assistant", content |-> content ] >>
                \o [ i \in 1..Len(actions) |-> HandleSystemAction(actions[i]).message ]
           /\ opened' = opened
                \o Flatten([ i \in 1..Len(actions) |-> HandleSystemAction(actions[i]).open ])
    /\ utterances' = utterances \o SpeakLocal(content)
    /\ voiceState' = Settled(q, voiceState)
    /\ UNCHANGED << isLocalMode, lastWrite, sessionVars, inputText, issued, rec,
                    speechRecognition, captureVars >>

\* queryOllama: fetch rejects, or the reply is not the expected JSON (lines 172-174).
OllamaFailed(q) ==
    /\ q \in requests /\ q.api = "ollama"
    /\ requests' = requests \ {q}
    /\ messages' = Append(messages, [ role |-> "system", content |-> << "Offline Error" >> ])
    /\ voiceState' = Settled(q, voiceState)
    /\ UNCHANGED << isLocalMode, opened, lastWrite, sessionVars, inputText, issued,
                    utterances, rec, speechRecognition, captureVars >>

\* A GenerateContentResponse: its text ('' or undefined is << >>) and its
\* functionCalls (undefined is << >>).
Replies == [ text : { << >>, << "hi" >> }, functionCalls : FunctionCallLists ]

\* response.text || "Processed." (line 320).
ReplyText(reply) == IF reply.text # << >> THEN reply.text ELSE << "Processed." >>

\* handleSendText after generateContent resolves (lines 312-320, 324).
GeminiResponse(q, reply) ==
    /\ q \in requests /\ q.api = "gemini"
    /\ requests' = requests \ {q}
    /\ messages' = messages \o CommandMessages(reply.functionCalls)
                     \o << [ role |-> "assistant", content |-> ReplyText(reply) ] >>
    /\ opened' = opened \o OpenedBy(reply.functionCalls)
    /\ voiceState' = Settled(q, voiceState)
    /\ UNCHANGED << isLocalMode, lastWrite, sessionVars, inputText, issued, utterances,
                    rec, speechRecognition, captureVars >>

\* handleSendText: generateContent rejects (lines 321-325).
GeminiFailed(q) ==
    /\ q \in requests /\ q.api = "gemini"
    /\ requests' = requests \ {q}
    /\ messages' = Append(messages, [ role |-> "system",
                                      content |-> << "Error communicating with Gemini." >> ])
    /\ voiceState' = Settled(q, voiceState)
    /\ UNCHANGED << isLocalMode, opened, lastWrite, sessionVars, inputText, issued,
                    utterances, rec, speechRecognition, captureVars >>

\* utterance.onstart (line 145) of the utterance at the head of the queue.
UtteranceOnStart ==
    /\ utterances # << >>
    /\ Head(utterances).state = "queued"
    /\ utterances' = << [ Head(utterances) EXCEPT !.state = "speaking" ] >>
                       \o Tail(utterances)
    /\ voiceState' = [ voiceState EXCEPT !.isSpeaking = TRUE ]
    /\ UNCHANGED << isLocalMode, messages, opened, lastWrite, sessionVars, inputText,
                    requests, issued, rec, speechRecognition, captureVars >>

\* utterance.onend (line 146).
UtteranceOnEnd ==
    /\ utterances # << >>
    /\ Head(utterances).state = "speaking"
    /\ utterances' = Tail(utterances)
    /\ voiceState' = [ voiceState EXCEPT !.isSpeaking = FALSE ]
    /\ UNCHANGED << isLocalMode, messages, opened, lastWrite, sessionVars, inputText,
                    requests, issued, rec, speechRecognition, captureVars >>

\* ---- batch (local) voice: one speech recognition pass ----------------------

RecsStarted == { r \in Recs : rec[r] # "none" }

\* The session button while it shows the microphone, local mode: the batch
\* branch of startVoice (lines 178-204), where the browser has a recognizer.
StartVoiceLocal ==
    /\ isLocalMode
    /\ ~voiceState.isActive
    /\ Cardinality(RecsStarted) < MaxRecs
    /\ LET r == Cardinality(RecsStarted) + 1
       IN  /\ rec' = [ rec EXCEPT ![r] = "starting" ]
           /\ speechRecognition' = r
    /\ UNCHANGED << isLocalMode, voiceState, messages, opened, lastWrite, sessionVars,
                    inputText, requests, issued, utterances, captureVars >>

\* rec.onstart (line 188).
RecOnStart(r) ==
    /\ rec[r] = "starting"
    /\ rec' = [ rec EXCEPT ![r] = "listening" ]
    /\ voiceState' = [ voiceState EXCEPT !.isActive = TRUE ]
    /\ UNCHANGED << isLocalMode, messages, opened, lastWrite, sessionVars, inputText,
                    requests, issued, utterances, speechRecognition, captureVars >>

\* The joined transcript of e.results, as fragments.
Transcripts == { << "a" >>, << "a", "b" >> }

\* rec.onresult (lines 189-192): the transcript so far replaces the buffer.
RecOnResult(r, transcript) ==
    /\ rec[r] = "listening"
    /\ voiceState' = [ voiceState EXCEPT !.transcription = transcript ]
    /\ lastWrite' = [ op |-> "onresult", arrival |-> lastWrite.arrival,
                      prev |-> lastWrite.op ]
    /\ UNCHANGED << isLocalMode, messages, opened, sessionVars, localVars, captureVars >>

\* rec.onend (lines 193-201): end of speech, rec.stop() of stopVoice, or an
\* error of the recognizer.
RecOnEnd(r) ==
    /\ rec[r] \in {"starting", "listening"}
    /\ rec' = [ rec EXCEPT ![r] = "ended" ]
    /\ IF voiceState.transcription # << >>
       THEN /\ issued < MaxRequests
            /\ messages' = Append(messages, [ role |-> "user",
                                              content |-> voiceState.transcription ])
            /\ issued' = issued + 1
            /\ requests' = requests \cup
                             { Request("ollama", voiceState.transcription, "voice") }
       ELSE UNCHANGED << messages, issued, requests >>
    /\ voiceState' = [ voiceState EXCEPT !.isActive = FALSE, !.transcription = << >> ]
    /\ lastWrite' = [ op |-> "onend", arrival |-> lastWrite.arrival, prev |-> lastWrite.op ]
    /\ UNCHANGED << isLocalMode, opened, sessionVars, inputText, utterances,
                    speechRecognition, captureVars >>

\* ---- capture: the script processor of onopen --------------------------------

\* sessionPromise.then(callback) while the promise is pending: the callback
\* joins the promise's reactions, which run in the order they were added.
ThenFirst(reactions, callback) == << callback >> \o reactions

Then(reactions, callback) == Append(reactions, callback)

\* scriptProcessor.onaudioprocess (lines 222-224) of startVoice call s: the
\* processor is connected by onopen and nothing disconnects it; a stopped
\* stream feeds it silence.  A chunk is known by the number of the frame
\* whose callback hands it over.
OnAudioProcess(s) ==
    /\ conn[s] \in {"open", "closing", "closed"}
    /\ frames < MaxFrames
    /\ frames' = frames + 1
    /\ LET chunk == [ kind |-> "realtimeInput", session |-> s, frame |-> frames + 1,
                      sound |-> (stream[s] = "live"),
                      deferred |-> (sessionPromise[s] # "resolved") ]
       IN  IF sessionPromise[s] = "resolved"
           THEN /\ sentAudio' = Append(sentAudio, chunk)
                /\ UNCHANGED pendingThen
           ELSE /\ pendingThen' = [ pendingThen EXCEPT ![s] = Then(@, chunk) ]
                /\ UNCHANGED sentAudio
    /\ UNCHANGED << isLocalMode, voiceState, messages, audioContexts, sessionRef, stream,
                    conn, sessionPromise, outputAC, now, decoding, units, delivered,
                    opened, toolResponses, lastWrite, stopped, localVars >>

\* Every handler but the session button's start and the delivery of messages.
Handlers ==
    \/ \E s \in Sessions : GetUserMedia(s)
    \/ \E s \in Sessions : GetUserMediaRejected(s)
    \/ \E s \in Sessions : ConnectRejected(s)
    \/ \E s \in Sessions : OnOpen(s)
    \/ \E s \in Sessions : SessionResolved(s)
    \/ \E s \in Sessions : OnClose(s)
    \/ StopVoice
    \/ DecodeResolved
    \/ PlaybackEnded
    \/ Tick

\* Any number of startVoice calls, also while an earlier one is waiting for
\* its device or connection; the service sends audio.
Next ==
    \/ StartVoice
    \/ Handlers
    \/ \E s \in Sessions, m \in AudioMessages : OnMessage(s, m)

Spec == Init /\ [][Next]_vars

\* One startVoice call; the service sends transcription fragments and
\* turn-complete events, with or without audio.
NextTranscript ==
    \/ StartVoiceOnce
    \/ Handlers
    \/ \E s \in Sessions, m \in TranscriptMessages : OnMessage(s, m)

SpecTranscript == Init /\ [][NextTranscript]_vars

\* One startVoice call; the service sends tool calls, with or without audio.
NextTools ==
    \/ StartVoiceOnce
    \/ Handlers
    \/ \E s \in Sessions, m \in ToolMessages : OnMessage(s, m)

SpecTools == Init /\ [][NextTools]_vars

\* An inference request settles: its reply arrives or it fails.
RequestSettles ==
    \/ \E q \in requests, content \in Contents : OllamaResponse(q, content)
    \/ \E q \in requests : OllamaFailed(q)
    \/ \E q \in requests, reply \in Replies : GeminiResponse(q, reply)
    \/ \E q \in requests : GeminiFailed(q)

\* The text box in both modes, no voice session.
NextText ==
    \/ ToggleMode
    \/ \E t \in Texts : SetInputText(t)
    \/ HandleSendText
    \/ RequestSettles
    \/ UtteranceOnStart
    \/ UtteranceOnEnd

\* Every request returns or fails in the end.
SpecText == Init /\ [][NextText]_vars /\ WF_vars(RequestSettles)

\* Local mode: one speech recognition pass, its request and the spoken reply.
NextBatch ==
    \/ ToggleMode
    \/ StartVoiceLocal
    \/ \E r \in Recs : RecOnStart(r)
    \/ \E r \in Recs, t \in Transcripts : RecOnResult(r, t)
    \/ \E r \in Recs : RecOnEnd(r)
    \/ StopVoice
    \/ \E q \in requests, content \in Contents : OllamaResponse(q, content)
    \/ \E q \in requests : OllamaFailed(q)
    \/ UtteranceOnStart
    \/ UtteranceOnEnd

SpecBatch == Init /\ [][NextBatch]_vars

\* One startVoice call with its capture side; the service sends audio.
NextCapture ==
    \/ StartVoiceOnce
    \/ Handlers
    \/ \E s \in Sessions : OnAudioProcess(s)
    \/ \E s \in Sessions, m \in PlainAudioMessages : OnMessage(s, m)

SpecCapture == Init /\ [][NextCapture]_vars

\* One startVoice call; the service sends audio.
NextPlayback ==
    \/ StartVoiceOnce
    \/ Handlers
    \/ \E s \in Sessions, m \in AudioMessages : OnMessage(s, m)

SpecPlayback == Init /\ [][NextPlayback]_vars

\* ---- C1 ----------------------------------------------------------------

SameSessionPairs ==
    { p \in (1..Len(units)) \X (1..Len(units)) :
        p[1] < p[2] /\ units[p[1]].session = units[p[2]].session }

OpenBeforeAndAfter == { s \in Sessions : conn[s] = "open" /\ conn'[s] = "open" }

\* C1: within one streaming session the nextStartTime cursor never decreases
\* and no two scheduled units overlap: a unit scheduled after another of the
\* same session starts no earlier than the other's start plus its duration.
C1_CursorMonotoneNoOverlap ==
    /\ [](\A p \in SameSessionPairs :
            units[p[2]].start >= units[p[1]].start + units[p[1]].duration)
    /\ [][OpenBeforeAndAfter # {} =>
            audioContexts'.nextStartTime >= audioContexts.nextStartTime]_vars

\* ---- C2 ----------------------------------------------------------------

\* C2: chunks are scheduled in arrival order: of two units of one session,
\* the one whose message was delivered first has the scheduledStart that is
\* no later, whatever the order in which their decodes complete.
C2_ArrivalOrder ==
    \A i, j \in 1..Len(units) :
        (units[i].session = units[j].session /\ units[i].arrival < units[j].arrival)
            => units[i].start <= units[j].start

\* ---- C3 ----------------------------------------------------------------

\* C3: while the session is open (and not stopped), isSpeaking is true
\* whenever at least one unit is in audioContexts.current.sources.
C3_SpeakingWhileLive ==
    ( /\ voiceState.isActive
      /\ audioContexts.output # NoSession
      /\ conn[audioContexts.output] = "open"
      /\ audioContexts.sources # {} )
        => voiceState.isSpeaking

\* ---- C4 ----------------------------------------------------------------

\* Line 232 ran in this step: an audio chunk was handed to onmessage.
SignalsStarted == delivered' # delivered /\ decoding' # decoding
\* An end-of-playback callback ran in this step.
EndOfPlayback == Len(units') < Len(units)
\* Line 243 ran in this step.
SignalsStopped == EndOfPlayback /\ audioContexts'.sources = {}

\* C4: 'speaking started' is signalled exactly on the steps that take
\* sources from empty to non-empty, and an end-of-playback callback signals
\* 'speaking stopped' exactly when it takes sources from non-empty to empty.
C4_SignalOnEdgesOnly ==
    [][ /\ SignalsStarted <=>
             (audioContexts.sources = {} /\ audioContexts'.sources # {})
        /\ SignalsStopped <=>
             (EndOfPlayback /\ audioContexts.sources # {} /\ audioContexts'.sources = {})
      ]_vars

\* ---- C5 ----------------------------------------------------------------

\* The sessions stopVoice has torn down.
ClosedByStop == { s \in stopped : conn[s] \in {"closing", "closed"} }

\* An inbound event of session s runs in this step.
InboundEvent(s) ==
    \/ OnOpen(s)
    \/ \E m \in ServerMessages : OnMessage(s, m)
    \/ \E d \in decoding : d.session = s /\ DecodeDone(d)

\* C5: after stopVoice, an inbound event of the closed session (onopen,
\* onmessage, or a decode that completes after the stop) leaves voiceState
\* (isActive, isThinking, isSpeaking, transcription) as it was.
C5_StaleEventsIgnored ==
    [][\A s \in ClosedByStop : InboundEvent(s) => voiceState' = voiceState]_vars

\* ---- C6 ----------------------------------------------------------------

OpenSessions == { s \in Sessions : stream[s] = "live" \/ conn[s] = "open" }

\* C6: at most one session (capture stream plus connection) is open at a
\* time, also when start is pressed while an earlier start is still waiting.
C6_AtMostOneSession == Cardinality(OpenSessions) <= 1

\* ---- C7 ----------------------------------------------------------------

\* C7: isActive is true only if a startVoice call issued after the latest
\* stopVoice has an open connection (opened, and neither closed nor failed).
C7_ActiveOnlyBetweenStartAndStop ==
    voiceState.isActive =>
        \E s \in Started \ stopped : conn[s] = "open"

\* ---- C8 ----------------------------------------------------------------

\* The step wrote voiceState.transcription.
WroteTranscript == lastWrite' # lastWrite

\* C8: fragments are appended in delivery order, and a turn-complete with a
\* non-empty buffer appends one assistant message holding the buffer (the
\* fragments delivered since the previous flush) and empties the buffer.
C8_TranscriptInDeliveryOrder ==
    [][WroteTranscript =>
        /\ lastWrite'.arrival > lastWrite.arrival
        /\ lastWrite'.op = "fragment" =>
              /\ \E f \in Fragments :
                    voiceState'.transcription = Append(voiceState.transcription, f)
              /\ messages' = messages
        /\ lastWrite'.op = "turnComplete" =>
              /\ voiceState'.transcription = << >>
              /\ messages' = IF voiceState.transcription # << >>
                             THEN Append(messages, [ role |-> "assistant",
                                                     content |-> voiceState.transcription ])
                             ELSE messages
      ]_vars

\* ---- C9 ----------------------------------------------------------------

\* C9: a turn-complete empties the buffer and, when the buffer was not
\* empty, appends it as one assistant message; a turn-complete that follows
\* a turn-complete with no fragment in between appends no message.
C9_TurnCompleteTwice ==
    [][(WroteTranscript /\ lastWrite'.op = "turnComplete") =>
        /\ voiceState'.transcription = << >>
        /\ voiceState.transcription # << >> =>
              messages' = Append(messages, [ role |-> "assistant",
                                             content |-> voiceState.transcription ])
        /\ lastWrite.op = "turnComplete" => messages' = messages
      ]_vars

\* A second turn-complete in a row has run, after an utterance was emitted.
C9_Witness ==
    /\ lastWrite.op = "turnComplete"
    /\ lastWrite.prev = "turnComplete"
    /\ voiceState.transcription = << >>
    /\ Len(messages) = 2
    /\ messages[2].role = "assistant"

\* ---- C10 ---------------------------------------------------------------

\* Every acknowledgment handed to sendToolResponse or waiting for the
\* session promise.
Acks == SelectSeq(Flatten([ s \in Sessions |-> pendingThen[s] ]), IsToolResponse)
        \o toolResponses

\* What handling the function calls of message n of session s must do.
DispatchedOnce(s, n, calls) ==
    LET newOpened == SubSeq(opened', Len(opened) + 1, Len(opened'))
        newAcks == SubSeq(toolResponses', Len(toolResponses) + 1, Len(toolResponses'))
                   \o SubSeq(pendingThen'[s], Len(pendingThen[s]) + 1, Len(pendingThen'[s]))
    IN  /\ Len(newOpened) = Len(calls)
        /\ Len(newAcks) = Len(calls)
        /\ \A i \in 1..Len(calls) :
              /\ newOpened[i] # << >>
              /\ newOpened[i][2] = EncodeURIComponent(calls[i].query)
              /\ newAcks[i] = [ kind |-> "toolResponse", session |-> s, id |-> << n, i >>,
                                name |-> calls[i].name, result |-> "Success" ]

\* The tool-call events onmessage handles without awaiting a decode.
ToolCallEvents == { m \in ToolMessages : m.audio = NoAudio }

\* C10: for every function call of an inbound tool-call event exactly one
\* url is opened and exactly one acknowledgment {result: "Success"} with the
\* call's id and name is handed to the session: at once when the session
\* promise has resolved, else when it resolves.
C10_OneOpenOneAckPerCall ==
    /\ [](/\ \A i, j \in 1..Len(Acks) : Acks[i].id = Acks[j].id => i = j
          /\ Len(Acks) = Len(opened)
          /\ \A s \in Sessions : sessionPromise[s] = "resolved" => pendingThen[s] = << >>)
    /\ [][/\ delivered' # delivered =>
                 \A s \in Sessions, m \in ToolCallEvents :
                     OnMessage(s, m) => DispatchedOnce(s, delivered + 1, m.functionCalls)
           /\ \A d \in decoding \ decoding' :
                 DispatchedOnce(d.session, d.arrival, d.msg.functionCalls)
          ]_vars

\* An openYoutube call has been dispatched and acknowledged.
C10_Witness ==
    /\ Len(opened) = 1
    /\ opened[1][1] = "youtube.com/results"
    /\ Len(toolResponses) = 1
    /\ toolResponses[1].name = "openYoutube"

\* ---- C11 ---------------------------------------------------------------

\* The names of systemToolDeclarations.
DeclaredTools == {"searchGoogle", "openYoutube", "playMusic"}

\* Handling these calls opened a url for the declared names only, and handed
\* one acknowledgment per call to session s.
UnknownOpenNothing(s, calls) ==
    /\ Len(opened') - Len(opened)
          = Cardinality({ i \in 1..Len(calls) : calls[i].name \in DeclaredTools })
    /\ (Len(toolResponses') - Len(toolResponses))
          + (Len(pendingThen'[s]) - Len(pendingThen[s])) = Len(calls)

\* C11: a tool call whose name is none of searchGoogle, openYoutube,
\* playMusic opens no url, and is acknowledged like any other call.
C11_UnknownToolOpensNothing ==
    [][/\ delivered' # delivered =>
             \A s \in Sessions, m \in ToolCallEvents :
                 OnMessage(s, m) => UnknownOpenNothing(s, m.functionCalls)
       /\ \A d \in decoding \ decoding' :
             UnknownOpenNothing(d.session, d.msg.functionCalls)
      ]_vars

\* ---- C12 ---------------------------------------------------------------

\* handleSendText issued a request in this step.
SentText == { q \in requests' \ requests : q.origin = "text" }

\* The messages this step appended.
Appended == SubSeq(messages', Len(messages) + 1, Len(messages'))

\* The reply of request q is emitted as one assistant message, after or
\* before one "Command triggered" message per url opened.
OneReply(q) ==
    /\ Cardinality({ i \in 1..Len(Appended) : Appended[i].role = "assistant" }) = 1
    /\ \A i \in 1..Len(Appended) :
          \/ Appended[i].role = "assistant"
          \/ Appended[i].role = "system" /\ Appended[i].content[1] = "Command triggered"
    /\ Len(Appended) = 1 + (Len(opened') - Len(opened))

\* C12: sendText with a non-blank text sets isThinking and issues exactly one
\* inference request; when the request returns, the tool calls it carries
\* are dispatched (in cloud mode one url per call), the reply is appended as
\* one assistant message and isThinking is cleared; when it fails isThinking
\* is cleared too; and, every request returning or failing in the end,
\* isThinking always becomes false again, in both modes.
C12_SendTextThinksOnce ==
    /\ [][/\ (Trim(inputText) # "" /\ HandleSendText) =>
                /\ voiceState'.isThinking
                /\ Cardinality(SentText) = 1
                /\ Cardinality(requests') = Cardinality(requests) + 1
                /\ \A q \in SentText : q.api = IF isLocalMode THEN "ollama" ELSE "gemini"
          /\ \A q \in requests \ requests' :
                q.origin = "text" =>
                   /\ ~voiceState'.isThinking
                   /\ requests' = requests \ {q}
                   /\ \A reply \in Replies :
                         GeminiResponse(q, reply) =>
                            /\ OneReply(q)
                            /\ Len(opened') - Len(opened) = Len(reply.functionCalls)
                            /\ Appended[Len(Appended)] =
                                  [ role |-> "assistant",
                                    content |-> IF reply.text = << >>
                                                THEN << "Processed." >> ELSE reply.text ]
                   /\ \A content \in Contents :
                         OllamaResponse(q, content) =>
                            /\ OneReply(q)
                            /\ Appended[1] = [ role |-> "assistant", content |-> content ]
         ]_vars
    /\ (voiceState.isThinking ~> ~voiceState.isThinking)

\* A cloud sendText has returned with a tool call and a reply: the user's
\* text, the command and the assistant's reply are in the log, and the
\* request is no longer in flight.
C12_Witness ==
    /\ Len(messages) = 4
    /\ messages[2].role = "user"
    /\ messages[3].role = "system"
    /\ messages[4] = [ role |-> "assistant", content |-> << "Processed." >> ]
    /\ Len(opened) = 1
    /\ requests = {}
    /\ issued = 1
    /\ ~voiceState.isThinking

\* ---- C13 ---------------------------------------------------------------

\* A terminal failure happens in this step: the capture device is refused,
\* the connection cannot be opened, or the request of a sendText fails.
TerminalFailure ==
    \/ \E s \in Sessions : GetUserMediaRejected(s)
    \/ \E s \in Sessions : ConnectRejected(s)
    \/ \E q \in requests : q.origin = "text" /\ (OllamaFailed(q) \/ GeminiFailed(q))

\* C13: every terminal failure appends exactly one system-role message and
\* leaves the session inactive and the state out of Thinking.
C13_FailureSurfacedOnce ==
    [][TerminalFailure =>
          /\ Len(Appended) = 1
          /\ Appended[1].role = "system"
          /\ ~voiceState'.isActive
          /\ ~voiceState'.isThinking
      ]_vars

\* ---- C14 ---------------------------------------------------------------

\* The decodes that completed in this step with no samples.
ZeroLengthDecoded == { d \in decoding \ decoding' : DecodeAudioData(d.msg).duration = 0 }

\* C14: a chunk that decodes to zero-length audio is dropped: it is not
\* scheduled, it does not join sources, and nextStartTime stays as it was.
C14_ZeroLengthDropped ==
    [][ZeroLengthDecoded # {} =>
          /\ units' = units
          /\ audioContexts'.sources = audioContexts.sources
          /\ audioContexts'.nextStartTime = audioContexts.nextStartTime
      ]_vars

\* ---- C15 ---------------------------------------------------------------

\* C15: stopVoice resets the scheduler: right after it sources is empty and
\* nextStartTime is 0, while the units already started on the audio sink are
\* left to play.
C15_StopResetsScheduler ==
    [][StopVoice =>
          /\ audioContexts'.sources = {}
          /\ audioContexts'.nextStartTime = 0
          /\ units' = units
      ]_vars

\* ---- C16 ---------------------------------------------------------------

\* The session is stopped by the user, or its connection closes.
SessionEnds == StopVoice \/ \E s \in Sessions : OnClose(s)

\* C16: when a streaming session is stopped or its connection closes, the
\* transcription buffer is emptied and no message is appended, so that no
\* fragment of the aborted turn is left for a later turn-complete.
C16_BufferClearedOnAbort ==
    [][SessionEnds =>
          /\ voiceState'.transcription = << >>
          /\ messages' = messages
      ]_vars

\* ---- C17 ---------------------------------------------------------------

\* The requests of the recognizer that are in flight.
VoiceRequests == { q \in requests : q.origin = "voice" }

\* C17: in batch mode, end-of-speech with a non-empty transcript records it
\* as one user message, submits it as one request and enters Thinking;
\* isThinking is true while that request is in flight; isSpeaking is true
\* while the reply is spoken and false once it has been; end-of-speech with
\* an empty transcript submits nothing.
C17_BatchTurn ==
    /\ [][\A r \in Recs : RecOnEnd(r) =>
             IF voiceState.transcription # << >>
             THEN /\ voiceState'.isThinking
                  /\ Cardinality(requests' \ requests) = 1
                  /\ Appended = << [ role |-> "user",
                                     content |-> voiceState.transcription ] >>
             ELSE /\ requests' = requests
                  /\ messages' = messages
         ]_vars
    /\ [](VoiceRequests # {} => voiceState.isThinking)
    /\ [][UtteranceOnStart => voiceState'.isSpeaking]_vars
    /\ [][UtteranceOnEnd => ~voiceState'.isSpeaking]_vars

\* ---- C18 ---------------------------------------------------------------

\* stopVoice has run since the last startVoice and no session is active.
AfterStop == Started # {} /\ Started \subseteq stopped /\ ~voiceState.isActive

\* C18: while no session is active the encoder receives no capture frame,
\* and after stopVoice no further chunk is handed to sendRealtimeInput.
C18_NoFramesAfterStop ==
    [][AfterStop =>
          /\ frames' = frames
          /\ sentAudio' = sentAudio
      ]_vars

\* ---- C19 ---------------------------------------------------------------

Idle == ~voiceState.isActive /\ ~voiceState.isThinking /\ ~voiceState.isSpeaking
Listening == voiceState.isActive /\ ~voiceState.isThinking /\ ~voiceState.isSpeaking
Speaking == voiceState.isActive /\ voiceState.isSpeaking

\* An audio chunk is handed to onmessage in this step.
AudioChunkDelivered == delivered' # delivered /\ decoding' # decoding
\* A turn-complete is handled in this step.
TurnCompleteHandled == WroteTranscript /\ lastWrite'.op = "turnComplete"

\* C19: the streaming scenario, step by step: onopen takes Idle to Listening;
\* an audio chunk takes Listening to Speaking; the end of the last unit in
\* sources takes Speaking back to Listening; a turn-complete met in
\* Listening with a non-empty buffer appends exactly one assistant message
\* holding the buffer and leaves the state Listening, the session active.
C19_StreamingScenario ==
    [][/\ (Idle /\ \E s \in Sessions : OnOpen(s)) => Listening'
       /\ (Listening /\ AudioChunkDelivered) => Speaking'
       /\ (Speaking /\ EndOfPlayback /\ audioContexts'.sources = {}) => Listening'
       /\ (Listening /\ TurnCompleteHandled /\ voiceState.transcription # << >>) =>
             /\ Appended = << [ role |-> "assistant",
                                content |-> voiceState.transcription ] >>
             /\ voiceState'.transcription = << >>
             /\ Listening'
      ]_vars

\* The scenario has run to its end: a chunk was played to its end, then the
\* buffer "ab" was emitted by a turn-complete, and the session is Listening.
C19_Witness ==
    /\ Listening
    /\ conn[1] = "open"
    /\ stopped = {}
    /\ audioContexts.nextStartTime > 0
    /\ audioContexts.sources = {}
    /\ units = << >>
    /\ decoding = {}
    /\ lastWrite.op = "turnComplete"
    /\ messages = << [ role |-> "assistant", content |-> << "Namaste" >> ],
                     [ role |-> "assistant", content |-> << "a", "b" >> ] >>

\* ---- C20 ---------------------------------------------------------------

\* The unit scheduled in this step, when a decode completed in it.
Scheduled == units'[Len(units')]

\* C20: a unit is started at the later of the cursor and the clock, so never
\* in the past, and the cursor moves to its start plus its duration; chunks
\* of durations d1, d2, d3 scheduled while the clock reads 0 are started at
\* 0, d1 and d1 + d2.
C20_StartAtMaxGapFree ==
    /\ [][\A d \in decoding \ decoding' :
             /\ Scheduled.start >= CurrentTime(d.session)
             /\ Scheduled.start >= audioContexts.nextStartTime
             /\ Scheduled.start \in { CurrentTime(d.session), audioContexts.nextStartTime }
             /\ Scheduled.duration = d.msg.audio
             /\ audioContexts'.nextStartTime = Scheduled.start + Scheduled.duration
         ]_vars
    /\ []((now = 0 /\ Len(units) = 3) =>
             /\ units[1].start = 0
             /\ units[2].start = units[1].duration
             /\ units[3].start = units[1].duration + units[2].duration)

\* Three chunks of one tick each have been scheduled while the clock reads
\* 0: the third is to start at 2 and the cursor is at 3.
C20_Witness ==
    /\ now = 0
    /\ Len(units) = 3
    /\ \A i \in 1..3 : units[i].duration = 1
    /\ units[3].start = 2
    /\ audioContexts.nextStartTime = 3

\* ---- C21 ---------------------------------------------------------------

\* The requests of handleSendText that are in flight.
TextRequests == { q \in requests : q.origin = "text" }

\* C21: handleSendText invoked while isThinking is true issues no request,
\* so at most one request of handleSendText is in flight at a time and
\* isThinking is true whenever one is.
C21_OneTextRequestInFlight ==
    /\ [][(voiceState.isThinking /\ HandleSendText) => requests' = requests]_vars
    /\ [](Cardinality(TextRequests) <= 1)
    /\ [](TextRequests # {} => voiceState.isThinking)

\* ---- C22 ---------------------------------------------------------------

\* The frames of startVoice call s in the order their chunks have been, or
\* are going to be, handed to sendRealtimeInput.
OutboundOf(s) ==
    LET ofSession(c) == c.session = s
    IN  SelectSeq(sentAudio, ofSession) \o SelectSeq(pendingThen[s], IsRealtimeInput)

FailedAfterCapture == { s \in Sessions : conn[s] = "failed" }

\* C23: when a streaming start fails after getUserMedia has resolved (the
\* connection throws or rejects), the capture stream and the audio contexts
\* that call opened are not left open.
C23_FailedStartCleansUp ==
    \A s \in FailedAfterCapture :
        /\ stream[s] # "live"
        /\ s \notin OpenContexts

====
